---- MODULE Spec2Model ----
(***************************************************************************)
(* Multilayer predictive-coding networks of src/src/models.py:             *)
(* MultilayerPCN with its two variants HierarchicalPCN and HybridPCN.      *)
(*                                                                         *)
(* A tensor is a record [k, sh, d]: k = "t" for a torch tensor of shape sh *)
(* (rank 0, 1 or 2) whose entries d are listed row by row; k = "list" is   *)
(* the python list [] that initialize() stores; k = "None" is an unset     *)
(* .grad; any other k is the exception raised while computing the value.   *)
(* Entries are integers: the arithmetic of the code is exact on them.      *)
(* Python's layer index l is l + 1 here (sequences start at 1).            *)
(***************************************************************************)
EXTENDS Integers, Sequences, FiniteSets, TLC

\* ------------------------------------------------------------ bounds
MaxIters == 2
MaxBatch == 2
MaxCalls == 2

\* ------------------------------------------------------------ tensors
T(sh, d) == [k |-> "t", sh |-> sh, d |-> d]
PyList == [k |-> "list", sh |-> <<>>, d |-> <<>>]
None == [k |-> "None", sh |-> <<>>, d |-> <<>>]
Exc(e) == [k |-> e, sh |-> <<>>, d |-> <<>>]
ErrKinds == {"TypeError", "RuntimeError", "AttributeError"}

IsT(x) == x.k = "t"
IsExc(x) == x.k \in ErrKinds
\* what an operation on a non-tensor operand raises: the operand's own
\* exception if it is one, TypeError for a python list or None
Prop(x) == IF IsExc(x) THEN x ELSE Exc("TypeError")

Rank(x) == Len(x.sh)
Rows(x) == IF Rank(x) = 2 THEN x.sh[1] ELSE 1
Cols(x) == IF Rank(x) = 0 THEN 1 ELSE x.sh[Rank(x)]
Max2(a, b) == IF a >= b THEN a ELSE b
ShapeOf(rank, r, c) == IF rank = 2 THEN <<r, c>> ELSE IF rank = 1 THEN <<c>> ELSE <<>>
\* entry (i, j) of x seen as a Rows x Cols matrix, a dimension of size 1
\* being stretched (torch broadcasting)
At(x, i, j) ==
    x.d[((IF Rows(x) = 1 THEN 1 ELSE i) - 1) * Cols(x) + (IF Cols(x) = 1 THEN 1 ELSE j)]
\* row and column of the n-th entry of a matrix with c columns
RowOf(n, c) == ((n - 1) \div c) + 1
ColOf(n, c) == ((n - 1) % c) + 1
Size(sh) == IF Len(sh) = 0 THEN 1 ELSE IF Len(sh) = 1 THEN sh[1] ELSE sh[1] * sh[2]
Fill(sh, v) == T(sh, [n \in 1..Size(sh) |-> v])

Broadcastable(a, b) ==
    /\ (Rows(a) = Rows(b) \/ Rows(a) = 1 \/ Rows(b) = 1)
    /\ (Cols(a) = Cols(b) \/ Cols(a) = 1 \/ Cols(b) = 1)

SignOp(x) == IF x > 0 THEN 1 ELSE IF x < 0 THEN -1 ELSE 0

\* utils.ReLU: apply and derivative. (utils.Tanh takes no integer value
\* off 0: the networks of this model are built with 'ReLU' or with a name
\* __init__ does not know.)
ReLUOp(x) == IF x > 0 THEN x ELSE 0
ReLUDerivOp(x) == IF x > 0 THEN 1 ELSE 0

\* the elementwise operations of the code, on entries
Un(op, x) ==
    CASE op = "neg" -> 0 - x
      [] op = "sign" -> SignOp(x)
      [] op = "ReLU" -> ReLUOp(x)
      [] op = "ReLU.deriv" -> ReLUDerivOp(x)
Bin(op, x, y) ==
    CASE op = "add" -> x + y
      [] op = "sub" -> x - y
      [] op = "mul" -> x * y

Map1(op, a) ==
    IF ~IsT(a) THEN Prop(a)
    ELSE T(a.sh, [n \in 1..Len(a.d) |-> Un(op, a.d[n])])

\* operands of different shapes, broadcast to rank x r x c
BroadcastZip(op, a, b, rank, r, c) ==
    T(ShapeOf(rank, r, c),
      [n \in 1..(r * c) |-> Bin(op, At(a, RowOf(n, c), ColOf(n, c)),
                                    At(b, RowOf(n, c), ColOf(n, c)))])

Zip(op, a, b) ==
    IF ~IsT(a) THEN Prop(a)
    ELSE IF ~IsT(b) THEN Prop(b)
    ELSE IF a.sh = b.sh THEN T(a.sh, [n \in 1..Len(a.d) |-> Bin(op, a.d[n], b.d[n])])
    ELSE IF ~Broadcastable(a, b) THEN Exc("RuntimeError")
    ELSE BroadcastZip(op, a, b, Max2(Rank(a), Rank(b)), Max2(Rows(a), Rows(b)),
                      Max2(Cols(a), Cols(b)))

Add(a, b) == Zip("add", a, b)
Sub(a, b) == Zip("sub", a, b)
Mul(a, b) == Zip("mul", a, b)
Neg(a) == Map1("neg", a)
Sign(a) == Map1("sign", a)
\* python number times tensor
Scale(c, a) ==
    IF ~IsT(a) THEN Prop(a)
    ELSE T(a.sh, [n \in 1..Len(a.d) |-> c * a.d[n]])

RECURSIVE SumSeq(_)
SumSeq(s) == IF Len(s) = 0 THEN 0 ELSE Head(s) + SumSeq(Tail(s))

\* Tensor.t(): transposes a matrix, returns a vector or a scalar as it is
Transpose(a) ==
    IF ~IsT(a) THEN Prop(a)
    ELSE IF Rank(a) < 2 THEN a
    ELSE T(<<Cols(a), Rows(a)>>,
           [n \in 1..Len(a.d) |-> At(a, ColOf(n, Rows(a)), RowOf(n, Rows(a)))])

\* torch.matmul on operands of rank 1 or 2: a seen as rows of length inner,
\* b as inner rows of length bcols
Dot(a, b, inner, bcols, i, j) ==
    SumSeq([m \in 1..inner |-> a.d[(i - 1) * inner + m] * b.d[(m - 1) * bcols + j]])

MatMulShaped(a, b, inner, bcols) ==
    IF inner # b.sh[1] THEN Exc("RuntimeError")
    ELSE IF Rank(a) = 2 /\ Rank(b) = 1
         THEN T(<<Rows(a)>>, [n \in 1..Rows(a) |-> Dot(a, b, inner, bcols, n, 1)])
    ELSE T(ShapeOf(Rank(a) + Rank(b) - 2, Rows(a), bcols),
           [n \in 1..(Rows(a) * bcols) |->
               Dot(a, b, inner, bcols, RowOf(n, bcols), ColOf(n, bcols))])

MatMul(a, b) ==
    IF ~IsT(a) THEN Prop(a)
    ELSE IF ~IsT(b) THEN Prop(b)
    ELSE IF Rank(a) = 0 \/ Rank(b) = 0 THEN Exc("RuntimeError")
    ELSE MatMulShaped(a, b, Cols(a), IF Rank(b) = 2 THEN b.sh[2] ELSE 1)

\* torch.sum(x, axis=0)
SumAxis0(a) ==
    IF ~IsT(a) THEN Prop(a)
    ELSE IF Rank(a) = 0 THEN a
    ELSE IF Rank(a) = 1 THEN T(<<>>, <<SumSeq(a.d)>>)
    ELSE T(<<Cols(a)>>,
           [j \in 1..Cols(a) |-> SumSeq([m \in 1..Rows(a) |-> At(a, m, j)])])

\* Tensor.fill_diagonal_(0): needs at least two dimensions
FillDiagonal0(a) ==
    IF ~IsT(a) THEN Prop(a)
    ELSE IF Rank(a) < 2 THEN Exc("RuntimeError")
    ELSE T(a.sh, [n \in 1..Len(a.d) |->
                     IF RowOf(n, Cols(a)) = ColOf(n, Cols(a)) THEN 0 ELSE a.d[n]])

\* ------------------------------------------------------------ nonlinearities
\* what MultilayerPCN.__init__ stores in self.nonlins for the argument nonlin:
\* a nonlinearity object for 'Tanh' and 'ReLU', the argument itself otherwise
SelectNonlin(nonlin) ==
    IF nonlin = "Tanh" THEN [callable |-> TRUE, name |-> "Tanh"]
    ELSE IF nonlin = "ReLU" THEN [callable |-> TRUE, name |-> "ReLU"]
    ELSE [callable |-> FALSE, name |-> nonlin]

\* self.nonlins[l](x): calling a str raises TypeError
Apply(nl, x) ==
    IF IsExc(x) THEN x
    ELSE IF ~nl.callable THEN Exc("TypeError")
    ELSE CASE nl.name = "ReLU" -> Map1("ReLU", x)

\* self.nonlins[l].deriv(x): a str has no attribute deriv
Deriv(nl, x) ==
    IF ~nl.callable THEN Exc("AttributeError")
    ELSE CASE nl.name = "ReLU" -> Map1("ReLU.deriv", x)

\* nn.Linear: x @ weight^T (+ bias)
AddBias(y, bias) == IF bias = None THEN y ELSE Add(y, bias)
Linear(layer, x) == AddBias(MatMul(x, Transpose(layer.weight)), layer.bias)

\* ------------------------------------------------------------ state
VARIABLES
    pc,           \* "new": no model yet; "idle": between calls; "set_nodes" and
                  \* "loop": inside train_pc_generative / test_pc_generative
    cfg,          \* n_layers, nodes, nonlins, Dt, lamb, use_bias, variant
    memory, layers, Wr,                          \* parameters
    val_nodes, preds, errs,                      \* <<>>: attribute not set
    memory_grad, Wr_grad, weight_grad, bias_grad, \* .grad of the parameters
    call,         \* arguments and loop counter of the running / last call
    raised,       \* exception the last operation ended with, or "none"
    ret,          \* value returned by the last test_pc_generative
    lastop,       \* last method executed; for update_val_nodes and update_grads
                  \* also the episode phase the call found
    phase,        \* episode phase (UNINITIALIZED, NODES_SET, RELAXING, GRADED, DONE)
    nwrites,      \* gradient assignments made since the running / last call began
    budget        \* calls the caller may still make

vars == <<pc, cfg, memory, layers, Wr, val_nodes, preds, errs, memory_grad,
          Wr_grad, weight_grad, bias_grad, call, raised, ret, lastop, phase,
          nwrites, budget>>

L == cfg.n_layers

\* ------------------------------------------------------------ input sets
\* entries 1, 0, 1, 0, ... row by row
Alt(sh) == T(sh, [n \in 1..Size(sh) |-> n % 2])
Patterns(sh) == {Fill(sh, 0), Alt(sh)}

NodeSeqs == {<<2, 1>>, <<1, 2>>, <<1, 1, 1>>}
Variants == {"Hierarchical", "Hybrid"}
NonlinNames == {"ReLU", "NoSuch"}
DtVals == {1}
LambVals == {0, 1}
BatchSizes == {1, MaxBatch}
Batches(n) == UNION {Patterns(<<B, n>>) : B \in BatchSizes}

NoCall == [op |-> "none", inp |-> None, n_iters |-> 0, mask |-> None,
           sensory |-> TRUE, itr |-> 0]

\* ------------------------------------------------------------ buffers
\* self.<buffer>[l]: AttributeError while initialize() has never run
Get(buf, l) == IF buf = <<>> THEN Exc("AttributeError") ELSE buf[l]

Frame == [val_nodes |-> val_nodes, preds |-> preds, errs |-> errs, raised |-> "none"]

\* self.<field>[l] = v, one statement: nothing happens once an exception is
\* on its way; an exception raised by the right-hand side leaves the buffer
\* as it was
Put(fr, field, l, v) ==
    IF fr.raised # "none" THEN fr
    ELSE IF IsExc(v) THEN [fr EXCEPT !.raised = v.k]
    ELSE IF fr[field] = <<>> THEN [fr EXCEPT !.raised = "AttributeError"]
    ELSE [fr EXCEPT ![field][l] = v]

\* ------------------------------------------------------------ update_err_nodes
HierarchicalPred(fr, l) ==
    IF l = 1 THEN memory
    ELSE Linear(layers[l - 1], Apply(cfg.nonlin, Get(fr.val_nodes, l - 1)))

HybridPred(fr, l) ==
    IF l = 1 THEN Add(memory, MatMul(Get(fr.val_nodes, 1), Transpose(Wr)))
    ELSE Linear(layers[l - 1], Apply(cfg.nonlin, Get(fr.val_nodes, l - 1)))

Pred(fr, l) ==
    IF cfg.variant = "Hybrid" THEN HybridPred(fr, l) ELSE HierarchicalPred(fr, l)

\* self.preds[l] = ..., then self.errs[l] = self.val_nodes[l] - self.preds[l]
PutErr(fr, l) == Put(fr, "errs", l, Sub(Get(fr.val_nodes, l), Get(fr.preds, l)))
ErrStep(fr, l) == PutErr(Put(fr, "preds", l, Pred(fr, l)), l)

RECURSIVE ErrLoop(_, _)
ErrLoop(fr, l) == IF l > L THEN fr ELSE ErrLoop(ErrStep(fr, l), l + 1)

UpdateErrNodes(fr) == ErrLoop(fr, 1)

\* ------------------------------------------------------------ initialize
EmptyBuffers == [l \in 1..L |-> PyList]

\* ------------------------------------------------------------ set_nodes
RECURSIVE SetNodesLoop(_, _)
SetNodesLoop(fr, l) ==
    IF l > L - 1 THEN fr
    ELSE SetNodesLoop(
           Put(fr, "val_nodes", l,
               Linear(layers[l - 1], Apply(cfg.nonlin, Get(fr.val_nodes, l - 1)))),
           l + 1)

SetNodes(fr, batch_inp) ==
    UpdateErrNodes(
        Put(SetNodesLoop(Put(fr, "val_nodes", 1, memory), 2), "val_nodes", L, batch_inp))

\* ------------------------------------------------------------ update_val_nodes
Penalty(l) == IF l = 1 THEN cfg.lamb ELSE 0

\* Delta with the penalty subtracted as it is, not times sign(val_nodes[l])
DeltaNoSign(fr, l, derivative) ==
    Add(Sub(Neg(Get(fr.errs, l)), Fill(Get(fr.val_nodes, l).sh, Penalty(l))),
        Mul(derivative, MatMul(Get(fr.errs, l + 1), layers[l].weight)))

Delta(fr, l, derivative) ==
    Add(Sub(Neg(Get(fr.errs, l)), Scale(Penalty(l), Sign(Get(fr.val_nodes, l)))),
        Mul(derivative, MatMul(Get(fr.errs, l + 1), layers[l].weight)))

\* derivative is evaluated first: what it raises is what the statement raises
MoveVal(fr, l, derivative) ==
    Put(fr, "val_nodes", l,
        IF IsExc(derivative) THEN derivative
        ELSE Add(Get(fr.val_nodes, l), Scale(cfg.Dt, Delta(fr, l, derivative))))

ValStep(fr, l) == MoveVal(fr, l, Deriv(cfg.nonlin, Get(fr.val_nodes, l)))

RECURSIVE ValLoop(_, _)
ValLoop(fr, l) == IF l > L - 1 THEN fr ELSE ValLoop(ValStep(fr, l), l + 1)

\* ReconStep with the mask dropped: every sensory entry follows its error
ReconStepUnmasked(fr, update_mask) ==
    Put(fr, "val_nodes", L,
        Add(Get(fr.val_nodes, L), Scale(cfg.Dt, Neg(Get(fr.errs, L)))))

\* if recon: the sensory layer moves where update_mask lets it
ReconStep(fr, update_mask) ==
    Put(fr, "val_nodes", L,
        Add(Get(fr.val_nodes, L),
            Scale(cfg.Dt, Mul(Neg(Get(fr.errs, L)), update_mask))))

Recon(fr, update_mask, recon) == IF recon THEN ReconStep(fr, update_mask) ELSE fr

\* UpdateValNodes without the closing update_err_nodes()
UpdateValNodesStale(fr, update_mask, recon) == Recon(ValLoop(fr, 1), update_mask, recon)

UpdateValNodes(fr, update_mask, recon) ==
    UpdateErrNodes(Recon(ValLoop(fr, 1), update_mask, recon))

\* ------------------------------------------------------------ update_grads
GFrame == [memory_grad |-> memory_grad, Wr_grad |-> Wr_grad,
           weight_grad |-> weight_grad, bias_grad |-> bias_grad,
           raised |-> "none", writes |-> 0]

\* param.grad = v: torch refuses a gradient whose shape is not the parameter's
SetGrad(g, field, param, v) ==
    IF g.raised # "none" THEN g
    ELSE IF ~IsT(v) THEN [g EXCEPT !.raised = Prop(v).k]
    ELSE IF v.sh # param.sh THEN [g EXCEPT !.raised = "RuntimeError"]
    ELSE [g EXCEPT ![field] = v, !.writes = @ + 1]

SetLayerGrad(g, field, l, param, v) ==
    IF g.raised # "none" THEN g
    ELSE IF ~IsT(v) THEN [g EXCEPT !.raised = Prop(v).k]
    ELSE IF v.sh # param.sh THEN [g EXCEPT !.raised = "RuntimeError"]
    ELSE [g EXCEPT ![field][l] = v, !.writes = @ + 1]

MemoryGradValue == Neg(SumAxis0(Get(errs, 1)))

\* WrGradValue without fill_diagonal_(0)
WrGradValueUnfilled == Neg(MatMul(Transpose(Get(errs, 1)), Get(val_nodes, 1)))

WrGradValue == Neg(FillDiagonal0(MatMul(Transpose(Get(errs, 1)), Get(val_nodes, 1))))

WeightGradValue(l) ==
    Neg(MatMul(Transpose(Get(errs, l + 1)), Apply(cfg.nonlin, Get(val_nodes, l))))

BiasGradValue(l) == Neg(SumAxis0(Get(errs, l + 1)))

BiasGradStep(g, l) ==
    IF cfg.use_bias
    THEN SetLayerGrad(g, "bias_grad", l, layers[l].bias, BiasGradValue(l))
    ELSE g

GradStep(g, l) ==
    BiasGradStep(SetLayerGrad(g, "weight_grad", l, layers[l].weight, WeightGradValue(l)), l)

RECURSIVE GradLoop(_, _)
GradLoop(g, l) == IF l > L - 1 THEN g ELSE GradLoop(GradStep(g, l), l + 1)

HierarchicalUpdateGrads(g) ==
    GradLoop(SetGrad(g, "memory_grad", memory, MemoryGradValue), 1)

HybridUpdateGrads(g) ==
    GradLoop(SetGrad(SetGrad(g, "memory_grad", memory, MemoryGradValue),
                     "Wr_grad", Wr, WrGradValue), 1)

UpdateGrads(g) ==
    IF cfg.variant = "Hybrid" THEN HybridUpdateGrads(g) ELSE HierarchicalUpdateGrads(g)

\* ReturnValue answering sensory=False with the prediction of layer index 0
ReturnValueTop(sensory, vn, pr) == IF sensory THEN vn[L] ELSE pr[1]

\* test_pc_generative's return value
ReturnValue(sensory, vn, pr) == IF sensory THEN vn[L] ELSE pr[L]

\* ------------------------------------------------------------ actions
params == <<cfg, memory, layers, Wr>>
bufs == <<val_nodes, preds, errs>>
grads == <<memory_grad, Wr_grad, weight_grad, bias_grad>>

NoCfg == [variant |-> "none", n_layers |-> 0, nodes |-> <<>>,
          nonlin |-> [callable |-> FALSE, name |-> "none"],
          Dt |-> 0, lamb |-> 0, use_bias |-> FALSE]

\* parameter values: 0: every entry zero; 1: entries 1, 0, 1, 0, ...
ParamSeeds == {0, 1}
ParamOf(seed, sh) == IF seed = 0 THEN Fill(sh, 0) ELSE Alt(sh)

\* budget: calls the caller may still make, if it counts them
Unlimited == [limited |-> FALSE, left |-> 0]
Limited(n) == [limited |-> TRUE, left |-> n]
CanCall == ~budget.limited \/ budget.left > 0
Spend(b) == IF b.limited THEN [b EXCEPT !.left = @ - 1] ELSE b

Init ==
    /\ pc = "new"
    /\ cfg = NoCfg
    /\ memory = None /\ layers = <<>> /\ Wr = None
    /\ val_nodes = <<>> /\ preds = <<>> /\ errs = <<>>
    /\ memory_grad = None /\ Wr_grad = None
    /\ weight_grad = <<>> /\ bias_grad = <<>>
    /\ call = NoCall
    /\ raised = "none"
    /\ ret = None
    /\ lastop = [name |-> "none", phase |-> "-"]
    /\ phase = "NONE"
    /\ nwrites = 0
    /\ budget = Unlimited

\* HierarchicalPCN(nodes, nonlin, Dt, ...) / HybridPCN(nodes, nonlin, Dt, ...):
\* no branch of __init__ raises
Construct(variant, nodes, nonlin, Dt, lamb, use_bias, seed, seed_Wr) ==
    /\ pc = "new"
    /\ pc' = "idle"
    /\ cfg' = [variant |-> variant, n_layers |-> Len(nodes), nodes |-> nodes,
               nonlin |-> SelectNonlin(nonlin), Dt |-> Dt, lamb |-> lamb,
               use_bias |-> use_bias]
    /\ layers' = [l \in 1..(Len(nodes) - 1) |->
                    [weight |-> ParamOf(seed, <<nodes[l + 1], nodes[l]>>),
                     bias |-> IF use_bias THEN ParamOf(seed, <<nodes[l + 1]>>) ELSE None]]
    /\ memory' = ParamOf(seed, <<nodes[1]>>)
    /\ Wr' = IF variant = "Hybrid" THEN ParamOf(seed_Wr, <<nodes[1], nodes[1]>>) ELSE None
    /\ weight_grad' = [l \in 1..(Len(nodes) - 1) |-> None]
    /\ bias_grad' = [l \in 1..(Len(nodes) - 1) |-> None]
    /\ lastop' = [name |-> "construct", phase |-> "-"]
    /\ UNCHANGED <<bufs, memory_grad, Wr_grad, call, raised, ret, phase, nwrites, budget>>

\* the four methods, as one step each
DoInitialize ==
    /\ val_nodes' = EmptyBuffers /\ preds' = EmptyBuffers /\ errs' = EmptyBuffers
    /\ raised' = "none"
    /\ phase' = "UNINITIALIZED"
    /\ lastop' = [name |-> "initialize", phase |-> "-"]
    /\ UNCHANGED <<params, grads>>

DoSetNodes(batch_inp) ==
    \E fr \in {SetNodes(Frame, batch_inp)} :
        /\ val_nodes' = fr.val_nodes /\ preds' = fr.preds /\ errs' = fr.errs
        /\ raised' = fr.raised
        /\ phase' = IF fr.raised = "none" THEN "NODES_SET" ELSE "ABORTED"
        /\ lastop' = [name |-> "set_nodes", phase |-> "-"]
        /\ UNCHANGED <<params, grads>>

DoUpdateValNodes(update_mask, recon) ==
    \E fr \in {UpdateValNodes(Frame, update_mask, recon)} :
        /\ val_nodes' = fr.val_nodes /\ preds' = fr.preds /\ errs' = fr.errs
        /\ raised' = fr.raised
        /\ phase' = IF fr.raised # "none" THEN "ABORTED"
                    ELSE IF phase \in {"NODES_SET", "RELAXING"} THEN "RELAXING"
                    ELSE phase
        /\ lastop' = [name |-> "update_val_nodes", phase |-> phase]
        /\ UNCHANGED <<params, grads>>

DoUpdateGrads(written) ==
    \E g \in {UpdateGrads(GFrame)} :
        /\ memory_grad' = g.memory_grad /\ Wr_grad' = g.Wr_grad
        /\ weight_grad' = g.weight_grad /\ bias_grad' = g.bias_grad
        /\ raised' = g.raised
        /\ nwrites' = written + g.writes
        /\ phase' = IF g.raised = "none" THEN "GRADED" ELSE "ABORTED"
        /\ lastop' = [name |-> "update_grads", phase |-> phase]
        /\ UNCHANGED <<params, bufs>>

\* the caller calls a method itself
Initialize ==
    /\ pc = "idle" /\ CanCall
    /\ DoInitialize
    /\ call' = [NoCall EXCEPT !.op = "initialize"]
    /\ budget' = Spend(budget) /\ nwrites' = 0 /\ ret' = None
    /\ UNCHANGED pc

CallSetNodes(batch_inp) ==
    /\ pc = "idle" /\ CanCall
    /\ DoSetNodes(batch_inp)
    /\ call' = [NoCall EXCEPT !.op = "set_nodes", !.inp = batch_inp]
    /\ budget' = Spend(budget) /\ nwrites' = 0 /\ ret' = None
    /\ UNCHANGED pc

CallUpdateValNodes(update_mask, recon) ==
    /\ pc = "idle" /\ CanCall
    /\ DoUpdateValNodes(update_mask, recon)
    /\ call' = [NoCall EXCEPT !.op = "update_val_nodes", !.mask = update_mask]
    /\ budget' = Spend(budget) /\ nwrites' = 0 /\ ret' = None
    /\ UNCHANGED pc

CallUpdateGrads ==
    /\ pc = "idle" /\ CanCall
    /\ DoUpdateGrads(0)
    /\ call' = [NoCall EXCEPT !.op = "update_grads"]
    /\ budget' = Spend(budget) /\ ret' = None
    /\ UNCHANGED pc

\* train_pc_generative(batch_inp, n_iters, update_mask) and
\* test_pc_generative(corrupt_inp, n_iters, update_mask, sensory): the call
\* runs initialize(), then takes one step per method it calls
TrainPcGenerative(batch_inp, n_iters, update_mask) ==
    /\ pc = "idle" /\ CanCall
    /\ DoInitialize
    /\ pc' = "set_nodes"
    /\ call' = [op |-> "train", inp |-> batch_inp, n_iters |-> n_iters,
                mask |-> update_mask, sensory |-> TRUE, itr |-> 0]
    /\ budget' = Spend(budget) /\ nwrites' = 0 /\ ret' = None

TestPcGenerative(corrupt_inp, n_iters, update_mask, sensory) ==
    /\ pc = "idle" /\ CanCall
    /\ DoInitialize
    /\ pc' = "set_nodes"
    /\ call' = [op |-> "test", inp |-> corrupt_inp, n_iters |-> n_iters,
                mask |-> update_mask, sensory |-> sensory, itr |-> 0]
    /\ budget' = Spend(budget) /\ nwrites' = 0 /\ ret' = None

EpisodeSetNodes ==
    /\ pc = "set_nodes"
    /\ DoSetNodes(call.inp)
    /\ pc' = IF raised' = "none" THEN "loop" ELSE "idle"
    /\ UNCHANGED <<call, ret, nwrites, budget>>

EpisodeUpdateValNodes ==
    /\ pc = "loop" /\ call.itr < call.n_iters
    /\ DoUpdateValNodes(call.mask, call.op = "test")
    /\ call' = [call EXCEPT !.itr = @ + 1]
    /\ pc' = IF raised' = "none" THEN "loop" ELSE "idle"
    /\ UNCHANGED <<ret, nwrites, budget>>

EpisodeUpdateGrads ==
    /\ pc = "loop" /\ call.itr = call.n_iters /\ call.op = "train"
    /\ DoUpdateGrads(nwrites)
    /\ pc' = "idle"
    /\ UNCHANGED <<call, ret, budget>>

EpisodeReturn ==
    /\ pc = "loop" /\ call.itr = call.n_iters /\ call.op = "test"
    /\ ret' = ReturnValue(call.sensory, val_nodes, preds)
    /\ lastop' = [name |-> "return", phase |-> "-"]
    /\ phase' = "DONE"
    /\ pc' = "idle"
    /\ UNCHANGED <<params, bufs, grads, call, raised, nwrites, budget>>

SensoryDim == cfg.nodes[L]
\* a batch and a mask of the batch's shape
BatchAndMask ==
    UNION {Patterns(<<B, SensoryDim>>) \X Patterns(<<B, SensoryDim>>) : B \in BatchSizes}

ConstructModel ==
    \E variant \in Variants, nodes \in NodeSeqs, nonlin \in NonlinNames,
       Dt \in DtVals, lamb \in LambVals, use_bias \in BOOLEAN,
       seed \in ParamSeeds, seed_Wr \in ParamSeeds :
        \* Wr exists in the hybrid only; an unrecognised name: one setting
        \* of the numeric arguments
        /\ (variant = "Hybrid" \/ seed_Wr = 0)
        /\ (nonlin \in {"Tanh", "ReLU"}
              \/ (lamb = 0 /\ ~use_bias /\ seed = 0 /\ seed_Wr = 0))
        /\ Construct(variant, nodes, nonlin, Dt, lamb, use_bias, seed, seed_Wr)

Train ==
    /\ pc = "idle"
    /\ \E bm \in BatchAndMask, n_iters \in 0..MaxIters :
            TrainPcGenerative(bm[1], n_iters, bm[2])

Test ==
    /\ pc = "idle"
    /\ \E bm \in BatchAndMask, n_iters \in 0..MaxIters, sensory \in BOOLEAN :
            TestPcGenerative(bm[1], n_iters, bm[2], sensory)

Next ==
    \/ ConstructModel
    \/ Train
    \/ Test
    \/ EpisodeSetNodes
    \/ EpisodeUpdateValNodes
    \/ EpisodeUpdateGrads
    \/ EpisodeReturn

Spec == Init /\ [][Next]_vars

\* a training caller that also calls the four methods itself, MaxCalls calls
\* in all
InitDirect ==
    /\ pc = "new"
    /\ cfg = NoCfg
    /\ memory = None /\ layers = <<>> /\ Wr = None
    /\ val_nodes = <<>> /\ preds = <<>> /\ errs = <<>>
    /\ memory_grad = None /\ Wr_grad = None
    /\ weight_grad = <<>> /\ bias_grad = <<>>
    /\ call = NoCall
    /\ raised = "none"
    /\ ret = None
    /\ lastop = [name |-> "none", phase |-> "-"]
    /\ phase = "NONE"
    /\ nwrites = 0
    /\ budget = Limited(MaxCalls)

SetNodesDirect ==
    /\ pc = "idle"
    /\ \E batch_inp \in Batches(SensoryDim) : CallSetNodes(batch_inp)

UpdateValNodesDirect ==
    /\ pc = "idle"
    /\ \E update_mask \in Batches(SensoryDim), recon \in BOOLEAN :
            CallUpdateValNodes(update_mask, recon)

NextDirect ==
    \/ ConstructModel
    \/ Train
    \/ EpisodeSetNodes
    \/ EpisodeUpdateValNodes
    \/ EpisodeUpdateGrads
    \/ Initialize
    \/ SetNodesDirect
    \/ UpdateValNodesDirect
    \/ CallUpdateGrads

SpecDirect == InitDirect /\ [][NextDirect]_vars

\* ------------------------------------------------------------ properties
Zero(x) == IsT(x) /\ \A n \in 1..Len(x.d) : x.d[n] = 0
NonZero(x) == IsT(x) /\ \E n \in 1..Len(x.d) : x.d[n] # 0
Hybrid == cfg.variant = "Hybrid"
\* the running or last call is a train / test episode that set_nodes or
\* update_val_nodes has just advanced without raising
Advanced ==
    /\ call.op \in {"train", "test"}
    /\ lastop.name \in {"set_nodes", "update_val_nodes"}
    /\ raised = "none"
\* train_pc_generative has returned or raised
TrainEnded == pc = "idle" /\ call.op = "train"
Returned == lastop.name = "return"
GradsMatch ==
    /\ IsT(memory_grad) /\ memory_grad.sh = memory.sh
    /\ Hybrid => (IsT(Wr_grad) /\ Wr_grad.sh = Wr.sh)
    /\ \A l \in 1..(L - 1) :
        /\ IsT(weight_grad[l]) /\ weight_grad[l].sh = layers[l].weight.sh
        /\ cfg.use_bias => (IsT(bias_grad[l]) /\ bias_grad[l].sh = layers[l].bias.sh)
NumParams == 1 + (IF Hybrid THEN 1 ELSE 0) + (L - 1) * (IF cfg.use_bias THEN 2 ELSE 1)

\* C1: right after initialize and set_nodes(batch_inp), val_nodes[l] has shape
\* (B, nodes[l]) at every layer l, and errs[l] has the shape of val_nodes[l].
C1_ShapesAfterSetNodes ==
    (lastop.name = "set_nodes" /\ raised = "none") =>
        \A l \in 1..L :
            /\ val_nodes[l].sh = <<call.inp.sh[1], cfg.nodes[l]>>
            /\ errs[l].sh = val_nodes[l].sh

\* C2: for every n_iters >= 0 and every batch size, train_pc_generative on a
\* model built with a recognised nonlinearity returns normally, and then every
\* parameter has a gradient of the parameter's shape.
C2_TrainLeavesGradients ==
    (TrainEnded /\ cfg.nonlin.callable) => (raised = "none" /\ GradsMatch)

\* C3: test_pc_generative with an all-zero update_mask and sensory=True
\* returns exactly the input; and after set_nodes and after every relaxation
\* step of a test episode, each sensory entry whose mask value is 0 still
\* holds its input value.
C3_MaskedEntriesKept ==
    /\ (Returned /\ call.sensory /\ Zero(call.mask)) => ret = call.inp
    /\ (call.op = "test" /\ (Advanced \/ Returned)) =>
        /\ val_nodes[L].sh = call.inp.sh
        /\ \A n \in 1..Len(call.mask.d) :
               call.mask.d[n] = 0 => val_nodes[L].d[n] = call.inp.d[n]

\* a test with a zero mask and at least one relaxation step has returned an
\* input with a nonzero entry while the sensory error is nonzero
C3_Witness ==
    /\ Returned /\ call.sensory /\ Zero(call.mask)
    /\ call.n_iters >= 1 /\ NonZero(call.inp) /\ NonZero(errs[L])

\* C4: in the hybrid, after update_grads the diagonal of Wr.grad is zero and
\* its entry (i, j) off the diagonal is that of -errs[0]^T @ val_nodes[0],
\* the sum over the batch of -errs[0][b, i] * val_nodes[0][b, j]; a Wr.grad
\* never holds a nonzero diagonal entry.
C4_WrGradDiagonal ==
    /\ IsT(Wr_grad) =>
        \A i \in 1..cfg.nodes[1] : Wr_grad.d[(i - 1) * cfg.nodes[1] + i] = 0
    /\ (Hybrid /\ lastop.name = "update_grads" /\ raised = "none") =>
        /\ Wr_grad.sh = <<cfg.nodes[1], cfg.nodes[1]>>
        /\ \A i, j \in 1..cfg.nodes[1] :
               i # j => Wr_grad.d[(i - 1) * cfg.nodes[1] + j]
                          = 0 - SumSeq([b \in 1..Rows(errs[1]) |->
                                          At(errs[1], b, i) * At(val_nodes[1], b, j)])

\* update_grads has run on a hybrid whose product -errs[0]^T @ val_nodes[0]
\* is nonzero both on and off the diagonal
C4_Witness ==
    /\ Hybrid /\ lastop.name = "update_grads" /\ raised = "none"
    /\ NonZero(Wr_grad)
    /\ \E i \in 1..cfg.nodes[1] :
           SumSeq([b \in 1..Rows(errs[1]) |->
                      At(errs[1], b, i) * At(val_nodes[1], b, i)]) # 0

\* C5: with zero weights, zero memory, no bias and an all-zero input batch,
\* set_nodes and every update_val_nodes after it (train or recon, any lamb,
\* any mask, any Wr) end normally with errs[l] = 0 at every layer.
C5_ZeroFixedPoint ==
    ( /\ call.op \in {"train", "test"}
      /\ lastop.name \in {"set_nodes", "update_val_nodes"}
      /\ cfg.nonlin.callable /\ ~cfg.use_bias
      /\ Zero(memory) /\ (\A l \in 1..(L - 1) : Zero(layers[l].weight))
      /\ Zero(call.inp) )
    => (raised = "none" /\ \A l \in 1..L : Zero(errs[l]))

\* the zero model with a sparsity penalty has relaxed a zero input twice under
\* recon with a nonzero mask
C5_Witness ==
    /\ call.op = "test" /\ lastop.name = "update_val_nodes" /\ call.itr >= 2
    /\ cfg.nonlin.callable /\ ~cfg.use_bias /\ cfg.lamb # 0
    /\ Zero(memory) /\ (\A l \in 1..(L - 1) : Zero(layers[l].weight))
    /\ Zero(call.inp) /\ NonZero(call.mask)
    /\ \A l \in 1..L : Zero(errs[l])

\* C6: update_val_nodes or update_grads called while set_nodes has not run
\* for the current episode (nothing initialized, initialize only, or an
\* episode already finished) fails.
C6_NoUseWithoutSetNodes ==
    ( /\ lastop.name \in {"update_val_nodes", "update_grads"}
      /\ lastop.phase \in {"NONE", "UNINITIALIZED", "GRADED", "DONE"} )
    => raised # "none"

\* C7: no model carries a nonlinearity selector outside the recognised set.
C7_NoUnknownNonlin == pc # "new" => cfg.nonlin.callable

\* C8 as stated: test_pc_generative returns val_nodes[L-1] when sensory=True
\* and the prediction of layer index 0 when sensory=False, after exactly
\* n_iters relaxation steps.
C8_ReturnsTopPrediction ==
    Returned =>
        /\ call.itr = call.n_iters
        /\ ret = IF call.sensory THEN val_nodes[L] ELSE preds[1]

\* C8 amended: test_pc_generative returns val_nodes[L-1] when sensory=True
\* and preds[L-1], the prediction of the sensory layer, when sensory=False,
\* after exactly n_iters relaxation steps.
C8_ReturnsSensoryPrediction ==
    Returned =>
        /\ call.itr = call.n_iters
        /\ ret = IF call.sensory THEN val_nodes[L] ELSE preds[L]

\* a test with sensory=False and at least one relaxation step has returned,
\* the predictions of the first and the last layer being different
C8_Witness ==
    /\ Returned /\ ~call.sensory /\ call.n_iters >= 1
    /\ preds[1] # preds[L] /\ ret # val_nodes[L]

\* C9: a train episode writes each parameter gradient exactly once, at its
\* end and not before; a test episode writes none.
C9_GradientsWrittenOnce ==
    /\ (TrainEnded /\ cfg.nonlin.callable) => nwrites = NumParams
    /\ (call.op = "train" /\ pc # "idle") => nwrites = 0
    /\ call.op = "test" => nwrites = 0

\* C10: after set_nodes and after each completed update_val_nodes, preds[l]
\* is the prediction computed from the current val_nodes (memory, plus
\* val_nodes[0] @ Wr^T in the hybrid, at l = 0; layer l-1 applied to
\* nonlin(val_nodes[l-1]) at l > 0) and errs[l] = val_nodes[l] - preds[l].
C10_PredsErrsConsistent ==
    Advanced =>
        /\ preds[1] = IF Hybrid THEN Add(memory, MatMul(val_nodes[1], Transpose(Wr)))
                      ELSE memory
        /\ \A l \in 2..L :
               preds[l] = AddBias(MatMul(Apply(cfg.nonlin, val_nodes[l - 1]),
                                         Transpose(layers[l - 1].weight)),
                                  layers[l - 1].bias)
        /\ \A l \in 1..L : errs[l] = Sub(val_nodes[l], preds[l])

\* a recon step has moved val_nodes[0] of a hybrid away from memory and left
\* a nonzero error
C10_Witness ==
    /\ Advanced /\ Hybrid /\ call.op = "test" /\ lastop.name = "update_val_nodes"
    /\ val_nodes[1].d # memory.d /\ NonZero(Wr)
    /\ \E l \in 1..L : NonZero(errs[l])

====
